---- MODULE Spec2Model ----
(***************************************************************************)
(* syncopath: one-way mirror of a source tree ("left", A) onto a           *)
(* destination tree ("right", B).  sync = plan + execute.                   *)
(*                                                                         *)
(* The file system is modelled as two trees.  A tree maps every relative   *)
(* path (a sequence of names, <<>> being the root) to an entry: nothing,   *)
(* a directory, or a regular file with its content (a sequence of chunks)  *)
(* and its modification time.  A name is a single character, so Python's   *)
(* string order on joined paths is the lexicographic order on sequences.   *)
(* Sizes are counted in chunks; times are the whole-second ST_MTIME field  *)
(* of the stat tuple, which is what the code compares and replicates.      *)
(***************************************************************************)
EXTENDS Naturals, Sequences, FiniteSets

\* ---- bounds of the model ------------------------------------------------
NumNames == 2
MaxDepth == 2
MaxEntries == 2
MaxSize == 1
NumChunks == 2
MaxMtime == 2
MaxFaults == 1
MaxTasks == 5
MaxLength == 10

\* ---- program constants: size of the thread pool and of io_queue, depth of
\* the channel between read and write ------------------------------------------
count == 4
BlobsDepth == 8

VARIABLES
    A,               \* source tree (never written by the program)
    B,               \* destination tree
    B0,              \* destination tree as it was when sync was called
    pc,              \* position of the caller (plan / execute)
    run,             \* 1: the sync under study, 2: a plan() alone (after it)
    directories,     \* queue.Queue of relative directories, FIFO
    dirUnfinished,   \* directories.unfinished_tasks
    results,         \* queue.Queue of partial plans, FIFO
    resUnfinished,   \* results.unfinished_tasks
    workers,         \* _compare_directory threads alive (their relative path)
    comparePc,       \* the _compare thread: "run" | "done"
    consolidatePc,   \* the _consolidate_results thread: "run" | "done"
    plans,           \* the consolidated plan
    thread_manager,  \* value of the semaphore
    io_queue,        \* tokens in io_queue (= its unfinished_tasks)
    todo,            \* paths of the current execute loop not yet handled
    tasks,           \* unlink / copy threads alive
    dirs,            \* the sorted directories the rmdir / mkdir loop has left
    dirlog,          \* directory operations performed by execute, in order
    failures,        \* the calls that failed so far, <<call, path>> (a listing
                     \* of something that is no directory is not recorded)
    faults,          \* number of failures injected by the environment
    \* -- the walk of plan(), thread step by thread step
    holding,         \* the directory _compare took and awaits a slot for, or None
    wstage,          \* per directory: the statement its worker is at (0: no worker)
    compared,        \* per directory: how many workers compared it
    merged,          \* number of partial plans the consolidator merged
    \* -- the tasks of execute(), thread step by thread step
    pending,         \* the task execute holds a slot for and has no token for yet
    taskinfo,        \* per task: statement it is at, its exit path, its releases
                     \* of a slot and its acknowledgements of a token
    ioUnfinished,    \* io_queue.unfinished_tasks
    \* -- one copy(left, right, path, stats), thread step by thread step
    copyPc,          \* position of the copy thread
    stats,           \* the stat record of the plan
    length,          \* number of chunks of the source file
    src,             \* the source handle: "unopened" | "open" | "closed" | "none"
    dst,             \* the destination handle, likewise
    blobs,           \* the channel between read and write, FIFO
    reader,          \* position of the read thread
    writer,          \* position of the write thread
    offset,          \* number of chunks read from the source
    blob,            \* the chunk the write thread took from the channel
    written,         \* the chunks written to the destination file, in order
    times            \* access and modification time of the destination file

vars == <<A, B, B0, pc, run, directories, dirUnfinished, results, resUnfinished,
          workers, comparePc, consolidatePc, plans, thread_manager, io_queue,
          todo, tasks, dirs, dirlog, failures, faults,
          holding, wstage, compared, merged, pending, taskinfo, ioUnfinished,
          copyPc, stats, length, src, dst, blobs, reader, writer, offset, blob,
          written, times>>

\* ---- paths ---------------------------------------------------------------
Names == 1..NumNames
Root == <<>>
Paths == UNION {[1..n -> Names] : n \in 0..MaxDepth}
None == <<0>>   \* the end marker put on a queue; no path contains 0

Parent(p) == SubSeq(p, 1, Len(p) - 1)
IsPrefix(p, q) == Len(p) <= Len(q) /\ SubSeq(q, 1, Len(p)) = p
IsAncestor(p, q) == Len(p) < Len(q) /\ IsPrefix(p, q)

\* str.__lt__ on the joined paths
LexLess(p, q) ==
    \E i \in 1..(Len(p) + 1) :
        /\ \A j \in 1..(i - 1) : j <= Len(q) /\ p[j] = q[j]
        /\ \/ i = Len(p) + 1 /\ Len(q) >= i
           \/ i <= Len(p) /\ i <= Len(q) /\ p[i] < q[i]

RECURSIVE Sorted(_)
Sorted(S) ==
    IF S = {} THEN <<>>
    ELSE LET m == CHOOSE x \in S : \A y \in S : x = y \/ LexLess(x, y)
         IN  <<m>> \o Sorted(S \ {m})

\* a sort that forgets reverse=True
Reverse_Forgotten(s) == s

Reverse(s) == [i \in 1..Len(s) |-> s[Len(s) + 1 - i]]

\* ---- trees ---------------------------------------------------------------
NoEntry == [kind |-> "none", content |-> <<>>, mtime |-> 0]
DirEntry == [kind |-> "dir", content |-> <<>>, mtime |-> 0]
Contents == UNION {[1..n -> 1..NumChunks] : n \in 0..MaxSize}
FileEntries == {[kind |-> "file", content |-> c, mtime |-> m] :
                    c \in Contents, m \in 1..MaxMtime}
Now == MaxMtime + 1   \* the time at which the run writes

EmptyTree == [p \in Paths |-> IF p = Root THEN DirEntry ELSE NoEntry]
MissingTree == [p \in Paths |-> NoEntry]

\* every tree obtained from the trees of S by adding one entry to a directory
Grow(S) ==
    S \cup {[t EXCEPT ![p] = e] :
              <<t, p, e>> \in {x \in S \X (Paths \ {Root}) \X (FileEntries \cup {DirEntry}) :
                                 /\ x[1][x[2]].kind = "none"
                                 /\ x[1][Parent(x[2])].kind = "dir"}}

RECURSIVE TreesUpTo(_)
TreesUpTo(k) == IF k = 0 THEN {EmptyTree, MissingTree} ELSE Grow(TreesUpTo(k - 1))
Trees == TreesUpTo(MaxEntries)

\* os.stat_result, the two fields the program reads
Stat(e) == [st_size |-> Len(e.content), st_mtime |-> e.mtime]

\* ---- listdir -------------------------------------------------------------
\* a listing that does not turn a failure into the empty list
listdir_Unabsorbed(T, d, fail) ==
    IF T[d].kind # "dir" \/ Len(d) = MaxDepth THEN {}
    ELSE {n \in Names : T[Append(d, n)].kind # "none"}

\* os.scandir raises OSError unless path is a directory; listdir then puts [].
\* fail: the environment makes the call fail.
listdir(T, d, fail) ==
    IF fail \/ T[d].kind # "dir" \/ Len(d) = MaxDepth THEN {}
    ELSE {n \in Names : T[Append(d, n)].kind # "none"}

\* ---- plans ---------------------------------------------------------------
EmptyPlans == [rmdir |-> {}, rmfile |-> {}, rmlink |-> {}, mkdir |-> {}, copy |-> {}]

\* Case 1 that lacks its else: a directory is created and also copied
Case1_NoElse(TA, d, names) ==
    [EmptyPlans EXCEPT
        !.mkdir = {Append(d, n) : n \in {x \in names : TA[Append(d, x)].kind = "dir"}},
        !.copy = {<<Append(d, n), Stat(TA[Append(d, n)])>> : n \in names}]

\* Case 1: the name exists on the left only
Case1(TA, d, names) ==
    [EmptyPlans EXCEPT
        !.mkdir = {Append(d, n) : n \in {x \in names : TA[Append(d, x)].kind = "dir"}},
        !.copy = {<<Append(d, n), Stat(TA[Append(d, n)])>> :
                     n \in {x \in names : TA[Append(d, x)].kind # "dir"}}]

\* Case 2 without the removal of the directories
Case2_FilesOnly(TB, d, names) ==
    [EmptyPlans EXCEPT
        !.rmfile = {Append(d, n) : n \in {x \in names : TB[Append(d, x)].kind # "dir"}}]

\* Case 2: the name exists on the right only
Case2(TB, d, names) ==
    [EmptyPlans EXCEPT
        !.rmdir = {Append(d, n) : n \in {x \in names : TB[Append(d, x)].kind = "dir"}},
        !.rmfile = {Append(d, n) : n \in {x \in names : TB[Append(d, x)].kind # "dir"}}]

\* Case 3 that copies over a directory without removing it
Case3_KeepDir(TA, TB, d, names) ==
    LET l(n) == TA[Append(d, n)]
        r(n) == TB[Append(d, n)]
    IN [EmptyPlans EXCEPT
        !.rmfile = {Append(d, n) : n \in {x \in names : l(x).kind = "dir" /\ r(x).kind = "file"}},
        !.copy = {<<Append(d, n), Stat(l(n))>> :
                     n \in {x \in names :
                              /\ l(x).kind = "file"
                              /\ \/ r(x).kind = "dir"
                                 \/ /\ r(x).kind = "file"
                                    /\ \/ Stat(l(x)).st_size # Stat(r(x)).st_size
                                       \/ Stat(l(x)).st_mtime # Stat(r(x)).st_mtime}}]

\* Case 3 that compares the sizes only
Case3_SizeOnly(TA, TB, d, names) ==
    LET l(n) == TA[Append(d, n)]
        r(n) == TB[Append(d, n)]
    IN [EmptyPlans EXCEPT
        !.rmfile = {Append(d, n) : n \in {x \in names : l(x).kind = "dir" /\ r(x).kind = "file"}},
        !.rmdir = {Append(d, n) : n \in {x \in names : l(x).kind = "file" /\ r(x).kind = "dir"}},
        !.copy = {<<Append(d, n), Stat(l(n))>> :
                     n \in {x \in names :
                              /\ l(x).kind = "file"
                              /\ \/ r(x).kind = "dir"
                                 \/ /\ r(x).kind = "file"
                                    /\ Stat(l(x)).st_size # Stat(r(x)).st_size}}]

\* Case 3: the name exists on both sides
Case3(TA, TB, d, names) ==
    LET l(n) == TA[Append(d, n)]
        r(n) == TB[Append(d, n)]
    IN [EmptyPlans EXCEPT
        !.rmfile = {Append(d, n) : n \in {x \in names : l(x).kind = "dir" /\ r(x).kind = "file"}},
        !.rmdir = {Append(d, n) : n \in {x \in names : l(x).kind = "file" /\ r(x).kind = "dir"}},
        !.copy = {<<Append(d, n), Stat(l(n))>> :
                     n \in {x \in names :
                              /\ l(x).kind = "file"
                              /\ \/ r(x).kind = "dir"
                                 \/ /\ r(x).kind = "file"
                                    /\ \/ Stat(l(x)).st_size # Stat(r(x)).st_size
                                       \/ Stat(l(x)).st_mtime # Stat(r(x)).st_mtime}}]

Merge(p, q) == [k \in DOMAIN p |-> p[k] \cup q[k]]

\* the partial plan of one directory
ComparePlans(TA, TB, d, lfail, rfail) ==
    LET left == listdir(TA, d, lfail)
        right == listdir(TB, d, rfail)
    IN Merge(Case1(TA, d, left \ right),
             Merge(Case2(TB, d, right \ left), Case3(TA, TB, d, left \cap right)))

\* the directories one comparison puts on the work queue
CompareSubdirs(TA, TB, d, lfail, rfail) ==
    LET left == listdir(TA, d, lfail)
        right == listdir(TB, d, rfail)
    IN {Append(d, n) : n \in {x \in left \cup right :
            \/ x \in left /\ TA[Append(d, x)].kind = "dir"
            \/ x \in right \ left /\ TB[Append(d, x)].kind = "dir"
            \/ x \in right \cap left /\ TA[Append(d, x)].kind = "file"
                                    /\ TB[Append(d, x)].kind = "dir"}}

\* the sequences that enumerate the set S once each, in any order
Orderings(S) ==
    {s \in [1..Cardinality(S) -> S] : \A i, j \in 1..Cardinality(S) : s[i] = s[j] => i = j}


\* ---- the threads, statement by statement ------------------------------------
\* a worker that marks its directory done before it has descended into it
WorkerOrder_DoneFirst == <<"task_done", "compare", "results_put", "release">>
\* _compare_directory: its statements that touch shared state, in order
WorkerOrder == <<"compare", "results_put", "task_done", "release">>
\* unlink and copy: the body, then the three statements that end the task
TaskOrder == <<"body", "release", "get", "task_done">>
TaskIds == {"unlink", "copy"} \X (Paths \ {Root})
NoTask == [at |-> 0, exit |-> "", released |-> 0, acked |-> 0]
NoStats == [st_size |-> 0, st_atime |-> 0, st_mtime |-> 0]

\* no walk, no task and no copy is followed statement by statement
WalkIdle ==
    /\ holding = None
    /\ wstage = [p \in Paths |-> 0]
    /\ compared = [p \in Paths |-> 0]
    /\ merged = 0
TasksIdle ==
    /\ pending = None
    /\ taskinfo = [t \in TaskIds |-> NoTask]
    /\ ioUnfinished = 0
PipeIdle ==
    /\ copyPc = "idle"
    /\ stats = NoStats
    /\ length = 0
    /\ src = "unopened"
    /\ dst = "unopened"
    /\ blobs = <<>>
    /\ reader = "idle"
    /\ writer = "idle"
    /\ offset = 0
    /\ blob = None
    /\ written = <<>>
    /\ times = NoStats

\* ---- the state after sync(left, right) has built its queues (plan, l.61-85)
PlanStart ==
    /\ directories = <<Root>>
    /\ dirUnfinished = 1
    /\ results = <<>>
    /\ resUnfinished = 0
    /\ workers = {}
    /\ comparePc = "run"
    /\ consolidatePc = "run"
    /\ plans = EmptyPlans

Init ==
    /\ A \in Trees
    /\ B \in Trees
    /\ B0 = B
    /\ pc = "directories_join"
    /\ run = 1
    /\ PlanStart
    /\ thread_manager = count
    /\ io_queue = 0
    /\ todo = {}
    /\ tasks = {}
    /\ dirs = <<>>
    /\ dirlog = <<>>
    /\ failures = {}
    /\ faults = 0
    /\ WalkIdle
    /\ TasksIdle
    /\ PipeIdle

fsVars == <<A, B, B0>>
planVars == <<directories, dirUnfinished, results, resUnfinished, workers,
              comparePc, consolidatePc, plans>>
execVars == <<io_queue, todo, tasks, dirs, dirlog>>
faultVars == <<failures, faults>>
walkVars == <<holding, wstage, compared, merged>>
taskVars == <<pending, taskinfo, ioUnfinished>>
pipeVars == <<copyPc, stats, length, src, dst, blobs, reader, writer, offset, blob,
              written, times>>
stepVars == <<walkVars, taskVars, pipeVars>>

\* the environment may make a call fail that would have succeeded
Inject(fail) == fail => faults < MaxFaults
\* bad: the call on path fails; fail: because the environment made it
Fault(bad, fail, call, path) ==
    /\ failures' = IF bad THEN failures \cup {<<call, path>>} ELSE failures
    /\ faults' = IF fail THEN faults + 1 ELSE faults

\* ---- plan -----------------------------------------------------------------
\* _compare: one iteration of its loop
Compare ==
    /\ comparePc = "run"
    /\ directories # <<>>
    /\ directories' = Tail(directories)
    /\ IF Head(directories) = None
       THEN /\ comparePc' = "done"
            /\ UNCHANGED <<workers, thread_manager>>
       ELSE /\ thread_manager > 0
            /\ thread_manager' = thread_manager - 1
            /\ workers' = workers \cup {Head(directories)}
            /\ UNCHANGED comparePc
    /\ UNCHANGED <<fsVars, pc, run, dirUnfinished, results, resUnfinished,
                   consolidatePc, plans, execVars, faultVars>>
    /\ UNCHANGED stepVars

\* _compare_directory: one worker thread, from its listings to its release
CompareDirectory(d, lfail, rfail) ==
    /\ d \in workers
    /\ lfail => A[d].kind = "dir"
    /\ rfail => B[d].kind = "dir"
    /\ ~(lfail /\ rfail)
    /\ Inject(lfail \/ rfail)
    /\ Fault(lfail \/ rfail, lfail \/ rfail,
             IF lfail THEN "listdir_left" ELSE "listdir_right", d)
    /\ \E order \in Orderings(CompareSubdirs(A, B, d, lfail, rfail)) :
          /\ directories' = directories \o order
          /\ dirUnfinished' = dirUnfinished + Len(order) - 1
    /\ results' = Append(results, ComparePlans(A, B, d, lfail, rfail))
    /\ resUnfinished' = resUnfinished + 1
    /\ workers' = workers \ {d}
    /\ thread_manager' = thread_manager + 1
    /\ UNCHANGED <<fsVars, pc, run, comparePc, consolidatePc, plans, execVars>>
    /\ UNCHANGED stepVars

\* _consolidate_results: one iteration of its loop
ConsolidateResults ==
    /\ consolidatePc = "run"
    /\ results # <<>>
    /\ results' = Tail(results)
    /\ IF Head(results) = None
       THEN /\ consolidatePc' = "done"
            /\ UNCHANGED <<plans, resUnfinished>>
       ELSE /\ plans' = Merge(plans, Head(results))
            /\ resUnfinished' = resUnfinished - 1
            /\ UNCHANGED consolidatePc
    /\ UNCHANGED <<fsVars, pc, run, directories, dirUnfinished, workers, comparePc,
                   thread_manager, execVars, faultVars>>
    /\ UNCHANGED stepVars

\* a caller that waits for the work queue and forgets the end marker
DirectoriesJoin_NoMarker ==
    /\ pc = "directories_join"
    /\ dirUnfinished = 0
    /\ pc' = "compare_join"
    /\ UNCHANGED <<fsVars, run, planVars, thread_manager, execVars, faultVars>>
    /\ UNCHANGED stepVars

\* plan, l.89-90: directories.join(); directories.put(None)
DirectoriesJoin ==
    /\ pc = "directories_join"
    /\ dirUnfinished = 0
    /\ directories' = Append(directories, None)
    /\ dirUnfinished' = 1
    /\ pc' = "compare_join"
    /\ UNCHANGED <<fsVars, run, results, resUnfinished, workers, comparePc,
                   consolidatePc, plans, thread_manager, execVars, faultVars>>
    /\ UNCHANGED stepVars

\* plan, l.91: compare_thread.join()
CompareJoin ==
    /\ pc = "compare_join"
    /\ comparePc = "done"
    /\ pc' = "results_join"
    /\ UNCHANGED <<fsVars, run, planVars, thread_manager, execVars, faultVars>>
    /\ UNCHANGED stepVars

\* plan, l.95-96: results.join(); results.put(None)
ResultsJoin ==
    /\ pc = "results_join"
    /\ resUnfinished = 0
    /\ results' = Append(results, None)
    /\ resUnfinished' = 1
    /\ pc' = "plan_join"
    /\ UNCHANGED <<fsVars, run, directories, dirUnfinished, workers, comparePc,
                   consolidatePc, plans, thread_manager, execVars, faultVars>>
    /\ UNCHANGED stepVars

\* plan, l.97-104: plan_thread.join(); return plans
PlanReturn ==
    /\ pc = "plan_join"
    /\ consolidatePc = "done"
    /\ pc' = IF run = 1 THEN "execute" ELSE "planned"
    /\ UNCHANGED <<fsVars, run, planVars, thread_manager, execVars, faultVars>>
    /\ UNCHANGED stepVars

\* ---- execute --------------------------------------------------------------
HasChildren(T, p) == \E q \in Paths : Parent(q) = p /\ q # Root /\ T[q].kind # "none"

\* os.rmdir succeeds on an empty directory only
RmdirOk(T, p) == T[p].kind = "dir" /\ ~HasChildren(T, p)

\* os.makedirs creates the missing ancestors, then the leaf, which must not exist
MakedirsOk(T, p) ==
    /\ T[p].kind = "none"
    /\ \A q \in Paths : IsAncestor(q, p) => T[q].kind # "file"
Makedirs(T, p) ==
    [q \in Paths |-> IF IsPrefix(q, p) /\ T[q].kind = "none" THEN DirEntry ELSE T[q]]

\* execute, l.112-113: ensure the right side exists
EnsureRight(fail) ==
    /\ pc = "execute"
    /\ fail => B[Root].kind # "dir"
    /\ Inject(fail)
    /\ Fault(fail, fail, "makedirs", Root)
    /\ IF B[Root].kind = "dir"
       THEN /\ pc' = "rmfile"
            /\ UNCHANGED B
       ELSE IF fail
       THEN /\ pc' = "raised"
            /\ UNCHANGED B
       ELSE /\ pc' = "rmfile"
            /\ B' = Makedirs(B, Root)
    /\ todo' = IF pc' = "rmfile" THEN plans.rmfile ELSE todo
    /\ UNCHANGED <<A, B0, run, planVars, thread_manager, io_queue, tasks, dirs, dirlog>>
    /\ UNCHANGED stepVars

\* execute, l.116-120: acquire a slot, put a token, start unlink
StartUnlink(f) ==
    /\ pc = "rmfile"
    /\ f \in todo
    /\ thread_manager > 0
    /\ io_queue < count
    /\ thread_manager' = thread_manager - 1
    /\ io_queue' = io_queue + 1
    /\ todo' = todo \ {f}
    /\ tasks' = tasks \cup {f}
    /\ UNCHANGED <<fsVars, pc, run, planVars, dirs, dirlog, faultVars>>
    /\ UNCHANGED stepVars

\* unlink: the removal thread.  When os.unlink raises, the thread ends there.
unlink(f, fail) ==
    /\ pc = "rmfile"
    /\ f \in tasks
    /\ fail => B[f].kind = "file"
    /\ Inject(fail)
    /\ tasks' = tasks \ {f}
    /\ IF B[f].kind = "file" /\ ~fail
       THEN /\ B' = [B EXCEPT ![f] = NoEntry]
            /\ thread_manager' = thread_manager + 1
            /\ io_queue' = io_queue - 1
       ELSE UNCHANGED <<B, thread_manager, io_queue>>
    /\ Fault(B[f].kind # "file" \/ fail, fail, "unlink", f)
    /\ UNCHANGED <<A, B0, pc, run, planVars, todo, dirs, dirlog>>
    /\ UNCHANGED stepVars

\* execute, l.122-125: io_queue.join(), then sort rmdir in reverse
RmfileJoin ==
    /\ pc = "rmfile"
    /\ todo = {}
    /\ io_queue = 0
    /\ pc' = "rmdir"
    /\ dirs' = Reverse(Sorted(plans.rmdir))
    /\ UNCHANGED <<fsVars, run, planVars, thread_manager, io_queue, todo, tasks,
                   dirlog, faultVars>>
    /\ UNCHANGED stepVars

\* an rmdir loop that logs the failure and goes on with the next directory
Rmdir_Swallow(fail) ==
    /\ pc = "rmdir"
    /\ dirs # <<>>
    /\ fail => RmdirOk(B, Head(dirs))
    /\ Inject(fail)
    /\ IF RmdirOk(B, Head(dirs)) /\ ~fail
       THEN /\ B' = [B EXCEPT ![Head(dirs)] = NoEntry]
            /\ dirlog' = Append(dirlog, <<"rmdir", Head(dirs)>>)
       ELSE UNCHANGED <<B, dirlog>>
    /\ dirs' = Tail(dirs)
    /\ Fault(~RmdirOk(B, Head(dirs)) \/ fail, fail, "rmdir", Head(dirs))
    /\ UNCHANGED <<A, B0, pc, run, planVars, thread_manager, io_queue, todo, tasks>>
    /\ UNCHANGED stepVars

\* execute, l.126: os.rmdir of the next directory; a failure leaves execute
Rmdir(fail) ==
    /\ pc = "rmdir"
    /\ dirs # <<>>
    /\ fail => RmdirOk(B, Head(dirs))
    /\ Inject(fail)
    /\ IF RmdirOk(B, Head(dirs)) /\ ~fail
       THEN /\ B' = [B EXCEPT ![Head(dirs)] = NoEntry]
            /\ dirlog' = Append(dirlog, <<"rmdir", Head(dirs)>>)
            /\ dirs' = Tail(dirs)
            /\ UNCHANGED pc
       ELSE /\ pc' = "raised"
            /\ UNCHANGED <<B, dirlog, dirs>>
    /\ Fault(~RmdirOk(B, Head(dirs)) \/ fail, fail, "rmdir", Head(dirs))
    /\ UNCHANGED <<A, B0, run, planVars, thread_manager, io_queue, todo, tasks>>
    /\ UNCHANGED stepVars

\* execute, l.129: the rmdir loop is over, sort mkdir
RmdirEnd ==
    /\ pc = "rmdir"
    /\ dirs = <<>>
    /\ pc' = "mkdir"
    /\ dirs' = Sorted(plans.mkdir)
    /\ UNCHANGED <<fsVars, run, planVars, thread_manager, io_queue, todo, tasks,
                   dirlog, faultVars>>
    /\ UNCHANGED stepVars

\* execute, l.130: os.makedirs of the next directory; a failure leaves execute
Mkdir(fail) ==
    /\ pc = "mkdir"
    /\ dirs # <<>>
    /\ fail => MakedirsOk(B, Head(dirs))
    /\ Inject(fail)
    /\ IF MakedirsOk(B, Head(dirs)) /\ ~fail
       THEN /\ B' = Makedirs(B, Head(dirs))
            /\ dirlog' = Append(dirlog, <<"mkdir", Head(dirs)>>)
            /\ dirs' = Tail(dirs)
            /\ UNCHANGED pc
       ELSE /\ pc' = "raised"
            /\ UNCHANGED <<B, dirlog, dirs>>
    /\ Fault(~MakedirsOk(B, Head(dirs)) \/ fail, fail, "makedirs", Head(dirs))
    /\ UNCHANGED <<A, B0, run, planVars, thread_manager, io_queue, todo, tasks>>
    /\ UNCHANGED stepVars

\* execute, l.133: the mkdir loop is over, the copies are next
MkdirEnd ==
    /\ pc = "mkdir"
    /\ dirs = <<>>
    /\ pc' = "copy"
    /\ todo' = plans.copy
    /\ UNCHANGED <<fsVars, run, planVars, thread_manager, io_queue, tasks, dirs,
                   dirlog, faultVars>>
    /\ UNCHANGED stepVars

\* execute, l.133-137: the largest file left is dispatched next
StartCopy(c) ==
    /\ pc = "copy"
    /\ c \in todo
    /\ \A o \in todo : o[2].st_size <= c[2].st_size
    /\ thread_manager > 0
    /\ io_queue < count
    /\ thread_manager' = thread_manager - 1
    /\ io_queue' = io_queue + 1
    /\ todo' = todo \ {c}
    /\ tasks' = tasks \cup {c}
    /\ UNCHANGED <<fsVars, pc, run, planVars, dirs, dirlog, faultVars>>
    /\ UNCHANGED stepVars

\* open(path, 'rb') / open(path, 'wb')
OpenReadOk(T, p) == T[p].kind = "file"
OpenWriteOk(T, p) == T[Parent(p)].kind = "dir" /\ T[p].kind # "dir"

\* what the destination file holds when the reader or the writer gave up
Prefixes(c) == {SubSeq(c, 1, n) : n \in 0..Len(c)}

CopyOutcomes == {"ok", "open_src", "open_dst", "transfer", "utime"}

\* copy: the copy thread.  fault names the call the environment makes fail.
copy(c, fault) ==
    LET p == c[1]
        st == c[2]
        srcOk == OpenReadOk(A, p) /\ fault # "open_src"
        dstOk == OpenWriteOk(B, p) /\ fault # "open_dst"
    IN
    /\ pc = "copy"
    /\ c \in tasks
    /\ fault = "open_src" => OpenReadOk(A, p)
    /\ fault = "open_dst" => OpenWriteOk(B, p)
    /\ fault \in {"transfer", "utime"} => OpenReadOk(A, p) /\ OpenWriteOk(B, p)
    /\ Inject(fault # "ok")
    /\ tasks' = tasks \ {c}
    /\ Fault(~srcOk \/ ~dstOk \/ fault # "ok", fault # "ok",
             IF ~srcOk \/ ~dstOk THEN "open" ELSE fault, p)
    /\ IF ~dstOk
       THEN UNCHANGED B
       ELSE IF ~srcOk
       THEN B' = [B EXCEPT ![p] = [kind |-> "file", content |-> <<>>, mtime |-> Now]]
       ELSE \E data \in (IF fault = "transfer" THEN Prefixes(A[p].content)
                         ELSE {A[p].content}) :
               B' = [B EXCEPT ![p] = [kind |-> "file", content |-> data,
                                       mtime |-> IF fault = "utime" THEN Now
                                                 ELSE st.st_mtime]]
    /\ IF fault = "utime"
       THEN UNCHANGED <<thread_manager, io_queue>>
       ELSE /\ thread_manager' = thread_manager + 1
            /\ io_queue' = io_queue - 1
    /\ UNCHANGED <<A, B0, pc, run, planVars, todo, dirs, dirlog>>
    /\ UNCHANGED stepVars

\* execute, l.139: io_queue.join(), execute returns
CopyJoin ==
    /\ pc = "copy"
    /\ todo = {}
    /\ io_queue = 0
    /\ pc' = "returned"
    /\ UNCHANGED <<fsVars, run, planVars, thread_manager, io_queue, todo, tasks,
                   dirs, dirlog, faultVars>>
    /\ UNCHANGED stepVars

\* the caller runs plan(left, right) again after a sync in which no call failed
PlanAgain ==
    /\ pc = "returned"
    /\ run = 1
    /\ failures = {}
    /\ run' = 2
    /\ pc' = "directories_join"
    /\ directories' = <<Root>>
    /\ dirUnfinished' = 1
    /\ results' = <<>>
    /\ resUnfinished' = 0
    /\ workers' = {}
    /\ comparePc' = "run"
    /\ consolidatePc' = "run"
    /\ plans' = EmptyPlans
    /\ UNCHANGED <<fsVars, thread_manager, execVars, faultVars>>
    /\ UNCHANGED stepVars

Next ==
    \/ Compare
    \/ \E d \in Paths, lfail, rfail \in BOOLEAN : CompareDirectory(d, lfail, rfail)
    \/ ConsolidateResults
    \/ DirectoriesJoin
    \/ CompareJoin
    \/ ResultsJoin
    \/ PlanReturn
    \/ \E fail \in BOOLEAN : EnsureRight(fail)
    \/ \E f \in Paths : StartUnlink(f)
    \/ \E f \in Paths, fail \in BOOLEAN : unlink(f, fail)
    \/ RmfileJoin
    \/ \E fail \in BOOLEAN : Rmdir(fail)
    \/ RmdirEnd
    \/ \E fail \in BOOLEAN : Mkdir(fail)
    \/ MkdirEnd
    \/ \E c \in todo : StartCopy(c)
    \/ \E c \in tasks, fault \in CopyOutcomes : copy(c, fault)
    \/ CopyJoin
    \/ PlanAgain

Spec == Init /\ [][Next]_vars

\* ---- vocabulary of the properties ------------------------------------------
Entries(T) == {p \in Paths \ {Root} : T[p].kind # "none"}
Files(T) == {p \in Paths \ {Root} : T[p].kind = "file"}
Dirs(T) == {p \in Paths \ {Root} : T[p].kind = "dir"}
Under(p) == {q \in Paths : IsAncestor(p, q)}

\* the first plan() has returned: plans is what sync executes, B0 what it read
PlanReturned == run = 1 /\ pc \in {"execute", "rmfile", "rmdir", "mkdir", "copy",
                                   "returned", "raised"}
SyncReturned == run = 1 /\ pc = "returned"
NoListingFailure == \A f \in failures : f[1] \notin {"listdir_left", "listdir_right"}
InPlan(p) ==
    \/ p \in plans.mkdir \cup plans.rmdir \cup plans.rmfile \cup plans.rmlink
    \/ \E c \in plans.copy : c[1] = p

\* C1 (Mirror): when sync has returned and no call has failed, B has the
\* entry names of A, and a regular file on both sides has A's size and
\* modification time.
C1_Mirror ==
    (SyncReturned /\ failures = {}) =>
        /\ Entries(B) = Entries(A)
        /\ \A p \in Files(A) \cap Files(B) : Stat(B[p]) = Stat(A[p])

\* C2 (Idempotence): the plan() that follows a sync during which no call
\* failed returns five empty sets.
C2_Idempotent ==
    (pc = "planned" /\ failures = {}) => plans = EmptyPlans

\* C3 (directory over file): when sync has returned and no call has failed,
\* every path that was a directory on A and a regular file on B is a
\* directory on B that holds every entry A has under it.
C3_DirOverFile ==
    (SyncReturned /\ failures = {}) =>
        \A p \in Dirs(A) \cap Files(B0) :
            /\ B[p].kind = "dir"
            /\ \A q \in Under(p) : A[q].kind # "none" => B[q].kind = A[q].kind

\* C4 (file over directory): for a path that is a regular file on A and a
\* directory on B, the plan holds the path in rmdir, everything B has under
\* it in rmfile / rmdir and the path with A's stat in copy; after a sync
\* without failure B has nothing under the path, which is a file with A's
\* size and modification time.
C4_FileOverDir ==
    \A p \in Files(A) \cap Dirs(B0) :
        /\ (PlanReturned /\ NoListingFailure) =>
              /\ p \in plans.rmdir
              /\ <<p, Stat(A[p])>> \in plans.copy
              /\ \A q \in Under(p) :
                    /\ B0[q].kind = "dir" => q \in plans.rmdir
                    /\ B0[q].kind = "file" => q \in plans.rmfile
        /\ (SyncReturned /\ failures = {}) =>
              /\ B[p].kind = "file"
              /\ Stat(B[p]) = Stat(A[p])
              /\ \A q \in Under(p) : B[q].kind = "none"

C4_Witness ==
    /\ SyncReturned
    /\ failures = {}
    /\ \E p \in Files(A) \cap Dirs(B0) : \E q \in Under(p) : B0[q].kind # "none"

\* C5 (one-sided entries): when no listing failed, the plan is exactly the
\* classification: mkdir holds the directories A alone has, rmdir the
\* directories of B that are no directory on A, rmfile the files of B that
\* are no file on A, copy the files of A (with their stat) that B lacks, has
\* as a directory or has with another size or modification time; rmlink is
\* empty.
C5_OneSided ==
    (PlanReturned /\ NoListingFailure) =>
        /\ plans.mkdir = {p \in Dirs(A) : B0[p].kind = "none"}
        /\ plans.rmdir = {p \in Dirs(B0) : A[p].kind # "dir"}
        /\ plans.rmfile = {p \in Files(B0) : A[p].kind # "file"}
        /\ plans.copy = {<<p, Stat(A[p])>> :
                            p \in {x \in Files(A) : \/ B0[x].kind # "file"
                                                    \/ Stat(A[x]) # Stat(B0[x])}}
        /\ plans.rmlink = {}

C5_Witness ==
    /\ PlanReturned
    /\ NoListingFailure
    /\ \E p \in Dirs(A), q \in Dirs(B0) :
          /\ B0[p].kind = "none"
          /\ A[q].kind = "none"
          /\ \E f \in Under(p) : A[f].kind = "file" /\ <<f, Stat(A[f])>> \in plans.copy
          /\ \E g \in Under(q) : B0[g].kind = "file" /\ g \in plans.rmfile

\* C6 (size and modification time only): a path that is a regular file on
\* both sides is in copy, with A's stat, exactly when the sizes or the
\* modification times differ; when both are equal the path is in no set of
\* the plan, whatever the two contents are.
C6_SizeAndMtimeOnly ==
    (PlanReturned /\ NoListingFailure) =>
        \A p \in Files(A) \cap Files(B0) :
            /\ <<p, Stat(A[p])>> \in plans.copy
                  <=> \/ Stat(A[p]).st_size # Stat(B0[p]).st_size
                      \/ Stat(A[p]).st_mtime # Stat(B0[p]).st_mtime
            /\ (/\ Stat(A[p]).st_size = Stat(B0[p]).st_size
                /\ Stat(A[p]).st_mtime = Stat(B0[p]).st_mtime) => ~InPlan(p)

C6_Witness ==
    /\ PlanReturned
    /\ NoListingFailure
    /\ \E p \in Files(A) \cap Files(B0) :
          /\ Stat(A[p]) = Stat(B0[p])
          /\ A[p].content # B0[p].content
          /\ ~InPlan(p)
    /\ \E p \in Files(A) \cap Files(B0) :
          /\ Stat(A[p]).st_size = Stat(B0[p]).st_size
          /\ Stat(A[p]).st_mtime # Stat(B0[p]).st_mtime
          /\ <<p, Stat(A[p])>> \in plans.copy

\* C7 (directory ordering): the rmdir loop runs in strictly descending and
\* the mkdir loop in strictly ascending lexical order; when execute is about
\* to remove a directory, every directory of rmdir under it has been
\* removed, and when it is about to create one, every directory of mkdir
\* above it has been created; no directory was removed before one under it
\* nor created before one above it.
Logged(op, q) == \E i \in DOMAIN dirlog : dirlog[i] = <<op, q>>
C7_DirOrder ==
    /\ pc = "rmdir" =>
          /\ \A i, j \in DOMAIN dirs : i < j => LexLess(dirs[j], dirs[i])
          /\ dirs # <<>> =>
                \A q \in plans.rmdir : IsAncestor(Head(dirs), q) => Logged("rmdir", q)
    /\ pc = "mkdir" =>
          /\ \A i, j \in DOMAIN dirs : i < j => LexLess(dirs[i], dirs[j])
          /\ dirs # <<>> =>
                \A q \in plans.mkdir : IsAncestor(q, Head(dirs)) => Logged("mkdir", q)
    /\ \A i, j \in DOMAIN dirlog :
          i < j => /\ dirlog[i][1] = dirlog[j][1]
                      => dirlog[i][2] # dirlog[j][2]
                   /\ dirlog[i][1] = "rmdir" /\ dirlog[j][1] = "rmdir"
                      => ~IsAncestor(dirlog[i][2], dirlog[j][2])
                   /\ dirlog[i][1] = "mkdir" /\ dirlog[j][1] = "mkdir"
                      => ~IsAncestor(dirlog[j][2], dirlog[i][2])

C7_Witness ==
    /\ SyncReturned
    /\ \E p, q \in Paths :
          /\ IsAncestor(p, q)
          /\ \E i, j \in DOMAIN dirlog :
                i < j /\ dirlog[i] = <<"rmdir", q>> /\ dirlog[j] = <<"rmdir", p>>
    /\ \E p, q \in Paths :
          /\ IsAncestor(p, q)
          /\ \E i, j \in DOMAIN dirlog :
                i < j /\ dirlog[i] = <<"mkdir", p>> /\ dirlog[j] = <<"mkdir", q>>

\* C8 (containment of removal and copy failures): in the rmfile and in the
\* copy phase, once no worker thread is alive, the next path can be
\* dispatched or, if none is left, the barrier is open and execute goes on.
C8_Contained ==
    (pc \in {"rmfile", "copy"} /\ tasks = {}) =>
        /\ todo # {} => thread_manager > 0 /\ io_queue < count
        /\ todo = {} => io_queue = 0

\* C9 (directory failures are fatal): execute has raised exactly when an
\* os.rmdir or an os.makedirs call has failed, and once it has raised
\* nothing changes any more: no directory is removed or created, no file is
\* copied.
DirFailure == \E f \in failures : f[1] \in {"rmdir", "makedirs"}
C9_Fatal ==
    [][/\ DirFailure' <=> pc' = "raised"
       /\ pc = "raised" => UNCHANGED vars]_vars

C9_Witness ==
    /\ pc = "raised"
    /\ \E f \in failures : f[1] = "rmdir"
    /\ Len(dirs) > 1
    /\ plans.copy # {}

\* C10 as stated: plan() with a source root that does not exist returns five
\* empty sets.
C10_AllEmpty ==
    (PlanReturned /\ A[Root].kind = "none") => plans = EmptyPlans

\* C10 as amended: plan() with a source root that does not exist returns
\* empty mkdir, copy and rmlink sets, and, when no listing of B failed,
\* rmfile and rmdir hold every file and directory of B.  A listing that
\* fails counts as empty: under a directory whose left listing failed
\* nothing is created or copied and what B has there is removed; under a
\* directory whose right listing failed nothing is removed and what A has
\* there is created or copied.
C10_ListingAbsorbed ==
    PlanReturned =>
        /\ A[Root].kind = "none" =>
              /\ plans.mkdir = {} /\ plans.copy = {} /\ plans.rmlink = {}
              /\ NoListingFailure =>
                    plans.rmfile = Files(B0) /\ plans.rmdir = Dirs(B0)
        /\ \A f \in failures : \A c \in {q \in Paths : q # Root /\ Parent(q) = f[2]} :
              /\ f[1] = "listdir_left" =>
                    /\ c \notin plans.mkdir
                    /\ \A x \in plans.copy : x[1] # c
                    /\ c \in plans.rmdir <=> B0[c].kind = "dir"
                    /\ c \in plans.rmfile <=> B0[c].kind = "file"
              /\ f[1] = "listdir_right" =>
                    /\ c \notin plans.rmdir
                    /\ c \notin plans.rmfile
                    /\ c \in plans.mkdir <=> A[c].kind = "dir"
                    /\ <<c, Stat(A[c])>> \in plans.copy <=> A[c].kind = "file"

C10_Witness ==
    /\ PlanReturned
    /\ A[Root].kind = "none"
    /\ plans.rmfile # {}
    /\ plans.rmdir # {}


\* ==== plan(), thread step by thread step ====================================
\* The walk as its threads interleave: _compare between its get and its
\* acquire, every worker between its statements.  The trees do not change.

\* the trees of the walk: what a file holds and when it was written play no
\* part in the threads' steps, so every file is the same
WalkTrees == {T \in Trees : \A p \in Paths : T[p].content = <<>> /\ T[p].mtime <= 1}

WalkInit ==
    /\ A \in WalkTrees
    /\ B \in WalkTrees
    /\ Cardinality(Entries(A) \cup Entries(B)) <= MaxEntries
    /\ B0 = B
    /\ pc = "directories_join"
    /\ run = 2
    /\ PlanStart
    /\ thread_manager = count
    /\ io_queue = 0
    /\ todo = {}
    /\ tasks = {}
    /\ dirs = <<>>
    /\ dirlog = <<>>
    /\ failures = {}
    /\ faults = 0
    /\ WalkIdle
    /\ TasksIdle
    /\ PipeIdle

\* the worker of d is about to execute statement stmt
WorkerAt(d, stmt) == wstage[d] > 0 /\ WorkerOrder[wstage[d]] = stmt
\* the worker of d has executed its statement; after the last one it is gone
WorkerAdvance(d) ==
    /\ wstage' = [wstage EXCEPT ![d] = IF @ = Len(WorkerOrder) THEN 0 ELSE @ + 1]
    /\ workers' = IF wstage[d] = Len(WorkerOrder) THEN workers \ {d} ELSE workers

\* _compare, l.179-181: rel_path = directories.get(); None ends the thread
CompareGet ==
    /\ comparePc = "run"
    /\ holding = None
    /\ directories # <<>>
    /\ directories' = Tail(directories)
    /\ IF Head(directories) = None
       THEN /\ comparePc' = "done"
            /\ UNCHANGED holding
       ELSE /\ holding' = Head(directories)
            /\ UNCHANGED comparePc
    /\ UNCHANGED <<fsVars, pc, run, dirUnfinished, results, resUnfinished, workers,
                   consolidatePc, plans, thread_manager, execVars, faultVars,
                   wstage, compared, merged, taskVars, pipeVars>>

\* _compare, l.183-187: thread_manager.acquire(), then the worker is started
CompareAcquire ==
    /\ holding # None
    /\ thread_manager > 0
    /\ thread_manager' = thread_manager - 1
    /\ workers' = workers \cup {holding}
    /\ wstage' = [wstage EXCEPT ![holding] = 1]
    /\ holding' = None
    /\ UNCHANGED <<fsVars, pc, run, directories, dirUnfinished, results,
                   resUnfinished, comparePc, consolidatePc, plans, execVars,
                   faultVars, compared, merged, taskVars, pipeVars>>

\* _compare_directory, l.199-298: the listings, the classification and the
\* directories.put of every subdirectory to descend into
WorkerCompare(d, lfail, rfail) ==
    /\ WorkerAt(d, "compare")
    /\ lfail => A[d].kind = "dir"
    /\ rfail => B[d].kind = "dir"
    /\ ~(lfail /\ rfail)
    /\ Inject(lfail \/ rfail)
    /\ Fault(lfail \/ rfail, lfail \/ rfail,
             IF lfail THEN "listdir_left" ELSE "listdir_right", d)
    /\ \E order \in Orderings(CompareSubdirs(A, B, d, lfail, rfail)) :
          /\ directories' = directories \o order
          /\ dirUnfinished' = dirUnfinished + Len(order)
    /\ compared' = [compared EXCEPT ![d] = @ + 1]
    /\ WorkerAdvance(d)
    /\ UNCHANGED <<fsVars, pc, run, results, resUnfinished, comparePc,
                   consolidatePc, plans, thread_manager, execVars, holding,
                   merged, taskVars, pipeVars>>

\* _compare_directory, l.300: results.put(plans)
WorkerResultsPut(d) ==
    /\ WorkerAt(d, "results_put")
    /\ results' = Append(results, ComparePlans(A, B, d,
                                               <<"listdir_left", d>> \in failures,
                                               <<"listdir_right", d>> \in failures))
    /\ resUnfinished' = resUnfinished + 1
    /\ WorkerAdvance(d)
    /\ UNCHANGED <<fsVars, pc, run, directories, dirUnfinished, comparePc,
                   consolidatePc, plans, thread_manager, execVars, faultVars,
                   holding, compared, merged, taskVars, pipeVars>>

\* _compare_directory, l.301: directories.task_done()
WorkerTaskDone(d) ==
    /\ WorkerAt(d, "task_done")
    /\ dirUnfinished > 0
    /\ dirUnfinished' = dirUnfinished - 1
    /\ WorkerAdvance(d)
    /\ UNCHANGED <<fsVars, pc, run, directories, results, resUnfinished, comparePc,
                   consolidatePc, plans, thread_manager, execVars, faultVars,
                   holding, compared, merged, taskVars, pipeVars>>

\* _compare_directory, l.302: thread_manager.release()
WorkerRelease(d) ==
    /\ WorkerAt(d, "release")
    /\ thread_manager' = thread_manager + 1
    /\ WorkerAdvance(d)
    /\ UNCHANGED <<fsVars, pc, run, directories, dirUnfinished, results,
                   resUnfinished, comparePc, consolidatePc, plans, execVars,
                   faultVars, holding, compared, merged, taskVars, pipeVars>>

\* _consolidate_results, l.157-164: one iteration of its loop
WalkConsolidate ==
    /\ consolidatePc = "run"
    /\ results # <<>>
    /\ results' = Tail(results)
    /\ IF Head(results) = None
       THEN /\ consolidatePc' = "done"
            /\ UNCHANGED <<plans, resUnfinished, merged>>
       ELSE /\ plans' = Merge(plans, Head(results))
            /\ resUnfinished' = resUnfinished - 1
            /\ merged' = merged + 1
            /\ UNCHANGED consolidatePc
    /\ UNCHANGED <<fsVars, pc, run, directories, dirUnfinished, workers, comparePc,
                   thread_manager, execVars, faultVars, holding, wstage, compared,
                   taskVars, pipeVars>>

WalkNext ==
    \/ CompareGet
    \/ CompareAcquire
    \/ \E d \in Paths, lfail, rfail \in BOOLEAN : WorkerCompare(d, lfail, rfail)
    \/ \E d \in Paths : WorkerResultsPut(d)
    \/ \E d \in Paths : WorkerTaskDone(d)
    \/ \E d \in Paths : WorkerRelease(d)
    \/ WalkConsolidate
    \/ DirectoriesJoin
    \/ CompareJoin
    \/ ResultsJoin
    \/ PlanReturn

WalkSpec == WalkInit /\ [][WalkNext]_vars

\* the scheduler runs some thread that can run
FairWalkSpec == WalkSpec /\ WF_vars(WalkNext)

\* ---- vocabulary of the walk ---------------------------------------------------
\* the listing of d that failed, as the worker of d recorded it
LFail(d) == <<"listdir_left", d>> \in failures
RFail(d) == <<"listdir_right", d>> \in failures

\* the directories the walk descends into from S, n levels down
RECURSIVE Descend(_, _)
Descend(S, n) ==
    IF n = 0 THEN S
    ELSE Descend(S \cup UNION {CompareSubdirs(A, B, d, LFail(d), RFail(d)) : d \in S},
                 n - 1)
Reachable == Descend({Root}, MaxDepth)

\* the union, set by set, of the partial plans of the directories of S
MergeAll(S) ==
    [k \in DOMAIN EmptyPlans |->
        UNION {ComparePlans(A, B, d, LFail(d), RFail(d))[k] : d \in S}]

Comparing(d) ==
    \/ WorkerAt(d, "compare")
    \/ WorkerAt(d, "results_put")
    \/ WorkerAt(d, "task_done")

\* C13: when plan() returns, every directory the walk reaches (without a failed
\* listing: the root and every directory of either tree) was compared exactly
\* once, as many partial plans were merged as directories compared, none is left
\* on the results queue, both threads are over, and each returned set is the
\* union of that set over the partial plans; the pending count of the work
\* queue is zero only when nothing is queued, held or being compared.
C13_PlanComplete ==
    /\ pc = "planned" =>
          /\ \A d \in Paths : compared[d] = IF d \in Reachable THEN 1 ELSE 0
          /\ NoListingFailure => Reachable = {Root} \cup Dirs(A) \cup Dirs(B)
          /\ merged = Cardinality(Reachable)
          /\ results = <<>>
          /\ comparePc = "done"
          /\ consolidatePc = "done"
          /\ plans = MergeAll(Reachable)
    /\ dirUnfinished = 0 =>
          /\ directories = <<>>
          /\ holding = None
          /\ \A d \in Paths : ~Comparing(d)

\* a plan of three directories, merged from partial plans of two workers at least
C13_Witness ==
    /\ pc = "planned"
    /\ merged >= 3
    /\ plans.mkdir # {}
    /\ plans.rmdir # {}

\* C14: under fair scheduling plan() returns and stays returned with the work
\* queue drained, no directory held by the dispatcher, every worker over and
\* its slot released, and the dispatcher and the consolidator both over.
C14_PlanTerminates ==
    <>[](/\ pc = "planned"
         /\ directories = <<>>
         /\ holding = None
         /\ workers = {}
         /\ thread_manager = count
         /\ comparePc = "done"
         /\ consolidatePc = "done")

\* the walk is over although a listing failed in it, every slot is back
C14_Witness ==
    /\ pc = "planned"
    /\ workers = {}
    /\ thread_manager = count
    /\ failures # {}
    /\ merged >= 2


\* ==== execute(), thread step by thread step ==================================
\* execute(left, right, plans) on a plan the caller hands in.  The dispatcher
\* is followed between its acquire and its put, every unlink and copy thread
\* between its statements.  What the calls find on disk is left open: each
\* one succeeds or fails as the environment decides.

\* the first n paths, and a plan that lists them
TaskPaths(n) ==
    LET all == Sorted(Paths \ {Root})
    IN {all[i] : i \in 1..(IF n < Len(all) THEN n ELSE Len(all))}
TaskStat(p) == [st_size |-> Len(p) - 1, st_mtime |-> 1]

ExecInit ==
    /\ A = EmptyTree
    /\ B = EmptyTree
    /\ B0 = B
    /\ pc = "execute"
    /\ run = 1
    /\ directories = <<>>
    /\ dirUnfinished = 0
    /\ results = <<>>
    /\ resUnfinished = 0
    /\ workers = {}
    /\ comparePc = "done"
    /\ consolidatePc = "done"
    /\ \E nrm \in 0..MaxTasks, ndir \in 0..1 :
       \E ncp \in 0..(MaxTasks - nrm) :
          plans = [rmdir |-> TaskPaths(ndir),
                   rmfile |-> TaskPaths(nrm),
                   rmlink |-> {},
                   mkdir |-> TaskPaths(ndir),
                   copy |-> {<<p, TaskStat(p)>> : p \in TaskPaths(ncp)}]
    /\ thread_manager = count
    /\ io_queue = 0
    /\ todo = {}
    /\ tasks = {}
    /\ dirs = <<>>
    /\ dirlog = <<>>
    /\ failures = {}
    /\ faults = 0
    /\ WalkIdle
    /\ TasksIdle
    /\ PipeIdle

\* positions of a task beyond its statements
Ended == Len(TaskOrder) + 1
Dead == Len(TaskOrder) + 2
TaskAt(t, stmt) ==
    /\ taskinfo[t].at \in 1..Len(TaskOrder)
    /\ TaskOrder[taskinfo[t].at] = stmt

\* the task an element of the loop stands for
TaskId(x) == IF pc = "rmfile" THEN <<"unlink", x>> ELSE <<"copy", x[1]>>

\* the ways the body of a task can end, and those that leave by an exception
ExitPaths(t) ==
    IF t[1] = "unlink" THEN {"ok", "unlink"}
    ELSE {"ok", "open_src", "open_dst", "read", "write", "utime"}
Raises(exit) == exit \in {"unlink", "utime"}

\* execute, l.112-113: ensure the right side exists
ExecStart(fail) ==
    /\ pc = "execute"
    /\ Inject(fail)
    /\ Fault(fail, fail, "makedirs", Root)
    /\ pc' = IF fail THEN "raised" ELSE "rmfile"
    /\ todo' = IF fail THEN todo ELSE plans.rmfile
    /\ UNCHANGED <<fsVars, run, planVars, thread_manager, io_queue, tasks, dirs,
                   dirlog, stepVars>>

\* a dispatcher that takes the next element without acquiring a slot
ExecAcquire_Unthrottled(x) ==
    /\ pc \in {"rmfile", "copy"}
    /\ pending = None
    /\ x \in todo
    /\ pc = "copy" => \A o \in todo : o[2].st_size <= x[2].st_size
    /\ todo' = todo \ {x}
    /\ pending' = TaskId(x)
    /\ UNCHANGED <<fsVars, pc, run, planVars, thread_manager, io_queue, tasks, dirs,
                   dirlog, faultVars, walkVars, taskinfo, ioUnfinished, pipeVars>>

\* execute, l.117 and l.134: thread_manager.acquire() for the next element
\* (any file to remove; the largest file to copy)
ExecAcquire(x) ==
    /\ pc \in {"rmfile", "copy"}
    /\ pending = None
    /\ x \in todo
    /\ pc = "copy" => \A o \in todo : o[2].st_size <= x[2].st_size
    /\ thread_manager > 0
    /\ thread_manager' = thread_manager - 1
    /\ todo' = todo \ {x}
    /\ pending' = TaskId(x)
    /\ UNCHANGED <<fsVars, pc, run, planVars, io_queue, tasks, dirs, dirlog,
                   faultVars, walkVars, taskinfo, ioUnfinished, pipeVars>>

\* execute, l.118-120 and l.135-137: io_queue.put(None), then the thread starts
ExecPut ==
    /\ pending # None
    /\ io_queue < count
    /\ io_queue' = io_queue + 1
    /\ ioUnfinished' = ioUnfinished + 1
    /\ taskinfo' = [taskinfo EXCEPT ![pending].at = 1]
    /\ pending' = None
    /\ UNCHANGED <<fsVars, pc, run, planVars, thread_manager, todo, tasks, dirs,
                   dirlog, faultVars, walkVars, pipeVars>>

\* unlink, l.310: os.unlink; copy, l.324-359: everything before the release.
\* A body that raises ends its thread at once.
TaskBody(t, exit) ==
    /\ TaskAt(t, "body")
    /\ exit \in ExitPaths(t)
    /\ Inject(exit # "ok")
    /\ Fault(exit # "ok", exit # "ok", exit, t[2])
    /\ taskinfo' = [taskinfo EXCEPT ![t].exit = exit,
                                    ![t].at = IF Raises(exit) THEN Dead ELSE @ + 1]
    /\ UNCHANGED <<fsVars, pc, run, planVars, thread_manager, execVars, walkVars,
                   pending, ioUnfinished, pipeVars>>

\* unlink, l.311; copy, l.361: thread_manager.release()
TaskRelease(t) ==
    /\ TaskAt(t, "release")
    /\ thread_manager' = thread_manager + 1
    /\ taskinfo' = [taskinfo EXCEPT ![t].released = @ + 1, ![t].at = @ + 1]
    /\ UNCHANGED <<fsVars, pc, run, planVars, execVars, faultVars, walkVars,
                   pending, ioUnfinished, pipeVars>>

\* unlink, l.312; copy, l.362: io_queue.get()
TaskGet(t) ==
    /\ TaskAt(t, "get")
    /\ io_queue > 0
    /\ io_queue' = io_queue - 1
    /\ taskinfo' = [taskinfo EXCEPT ![t].at = @ + 1]
    /\ UNCHANGED <<fsVars, pc, run, planVars, thread_manager, todo, tasks, dirs,
                   dirlog, faultVars, walkVars, pending, ioUnfinished, pipeVars>>

\* unlink, l.313; copy, l.363: io_queue.task_done()
TaskDone(t) ==
    /\ TaskAt(t, "task_done")
    /\ ioUnfinished > 0
    /\ ioUnfinished' = ioUnfinished - 1
    /\ taskinfo' = [taskinfo EXCEPT ![t].acked = @ + 1, ![t].at = @ + 1]
    /\ UNCHANGED <<fsVars, pc, run, planVars, thread_manager, execVars, faultVars,
                   walkVars, pending, pipeVars>>

\* an execute that goes on to the directories once every removal is dispatched
ExecRmfileJoin_NoJoin ==
    /\ pc = "rmfile"
    /\ todo = {}
    /\ pending = None
    /\ pc' = "rmdir"
    /\ dirs' = Reverse(Sorted(plans.rmdir))
    /\ UNCHANGED <<fsVars, run, planVars, thread_manager, io_queue, todo, tasks,
                   dirlog, faultVars, stepVars>>

\* execute, l.122-125: io_queue.join(), then sort rmdir in reverse
ExecRmfileJoin ==
    /\ pc = "rmfile"
    /\ todo = {}
    /\ pending = None
    /\ ioUnfinished = 0
    /\ pc' = "rmdir"
    /\ dirs' = Reverse(Sorted(plans.rmdir))
    /\ UNCHANGED <<fsVars, run, planVars, thread_manager, io_queue, todo, tasks,
                   dirlog, faultVars, stepVars>>

\* execute, l.126 and l.130: os.rmdir / os.makedirs of the next directory
ExecDir(fail) ==
    /\ pc \in {"rmdir", "mkdir"}
    /\ dirs # <<>>
    /\ Inject(fail)
    /\ Fault(fail, fail, IF pc = "rmdir" THEN "rmdir" ELSE "makedirs", Head(dirs))
    /\ IF fail
       THEN /\ pc' = "raised"
            /\ UNCHANGED <<dirs, dirlog>>
       ELSE /\ dirlog' = Append(dirlog, <<pc, Head(dirs)>>)
            /\ dirs' = Tail(dirs)
            /\ UNCHANGED pc
    /\ UNCHANGED <<fsVars, run, planVars, thread_manager, io_queue, todo, tasks,
                   stepVars>>

\* execute, l.139: io_queue.join(), execute returns
ExecCopyJoin ==
    /\ pc = "copy"
    /\ todo = {}
    /\ pending = None
    /\ ioUnfinished = 0
    /\ pc' = "returned"
    /\ UNCHANGED <<fsVars, run, planVars, thread_manager, execVars, faultVars,
                   stepVars>>

ExecNext ==
    \/ \E fail \in BOOLEAN : ExecStart(fail)
    \/ \E x \in todo : ExecAcquire(x)
    \/ ExecPut
    \/ \E t \in TaskIds, exit \in {"ok", "unlink", "open_src", "open_dst", "read",
                                   "write", "utime"} : TaskBody(t, exit)
    \/ \E t \in TaskIds : TaskRelease(t)
    \/ \E t \in TaskIds : TaskGet(t)
    \/ \E t \in TaskIds : TaskDone(t)
    \/ ExecRmfileJoin
    \/ \E fail \in BOOLEAN : ExecDir(fail)
    \/ RmdirEnd
    \/ MkdirEnd
    \/ ExecCopyJoin

ExecSpec == ExecInit /\ [][ExecNext]_vars

\* ---- vocabulary of the tasks --------------------------------------------------
\* every removal of the plan was dispatched and its thread is over
UnlinkOver == \A f \in plans.rmfile : taskinfo[<<"unlink", f>>].at = Ended
\* a copy holds a slot or has a thread
CopyStarted ==
    \E c \in plans.copy :
        taskinfo[<<"copy", c[1]>>].at # 0 \/ pending = <<"copy", c[1]>>
PhaseSteps ==
    {<<"execute", "rmfile">>, <<"rmfile", "rmdir">>, <<"rmdir", "mkdir">>,
     <<"mkdir", "copy">>, <<"copy", "returned">>,
     <<"execute", "raised">>, <<"rmdir", "raised">>, <<"mkdir", "raised">>}

\* C11: execute goes through rmfile, rmdir, mkdir, copy in that order; no
\* directory is removed, and no later phase entered, before every file removal
\* was dispatched and is over; no copy holds a slot or runs before every rmdir
\* and every mkdir of the plan was performed; execute returns only when every
\* copy of the plan was dispatched and is over.
C11_PhaseBarrier ==
    /\ [](/\ (pc \in {"rmdir", "mkdir", "copy", "returned"} \/ dirlog # <<>>)
             => UnlinkOver
          /\ CopyStarted =>
                /\ pc \in {"copy", "returned"}
                /\ \A d \in plans.rmdir : Logged("rmdir", d)
                /\ \A d \in plans.mkdir : Logged("mkdir", d)
          /\ pc = "returned" =>
                \A c \in plans.copy : taskinfo[<<"copy", c[1]>>].at = Ended)
    /\ [][pc' # pc => <<pc, pc'>> \in PhaseSteps]_vars

\* execute returned after removals, both directory loops and copies
C11_Witness ==
    /\ pc = "returned"
    /\ plans.rmfile # {}
    /\ plans.copy # {}
    /\ \E d \in Paths : Logged("rmdir", d)
    /\ \E d \in Paths : Logged("mkdir", d)


\* ==== a call of plan() or a call of execute(), thread step by thread step ====
ThreadInit == WalkInit \/ ExecInit
ThreadNext == WalkNext \/ ExecNext
ThreadSpec == ThreadInit /\ [][ThreadNext]_vars

\* the throttled tasks between the dispatcher's acquire and their own release
HoldingWorkers == {d \in Paths : wstage[d] > 0}
HoldingTasks ==
    {t \in TaskIds : pending = t \/ (taskinfo[t].at # 0 /\ taskinfo[t].released = 0)}

C15_CopyReleases ==
    \A t \in TaskIds :
        (t[1] = "copy" /\ taskinfo[t].at \in {Ended, Dead}) =>
            /\ taskinfo[t].released = 1
            /\ taskinfo[t].acked = 1


\* ==== copy(), thread step by thread step =====================================
\* One copy(left, right, path, stats) started by execute: its two open_file
\* threads, the copy thread, the read thread and the write thread.  The source
\* file is a sequence of `length` chunks, the i-th being Chunk(i); whether an
\* open succeeds is left to the environment, and so is one failing read,
\* write or utime.
Chunk(i) == <<i>>
StatTimes(st) == [st_size |-> 0, st_atime |-> st.st_atime, st_mtime |-> st.st_mtime]
NowTimes == [st_size |-> 0, st_atime |-> Now, st_mtime |-> Now]

\* file.close(): closing a closed file does nothing; None has no close
Close(h) == IF h = "open" THEN "closed" ELSE h

CopyInit ==
    /\ A = EmptyTree
    /\ B = EmptyTree
    /\ B0 = B
    /\ pc = "copy"
    /\ run = 1
    /\ directories = <<>>
    /\ dirUnfinished = 0
    /\ results = <<>>
    /\ resUnfinished = 0
    /\ workers = {}
    /\ comparePc = "done"
    /\ consolidatePc = "done"
    /\ plans = EmptyPlans
    /\ thread_manager = count - 1
    /\ io_queue = 1
    /\ todo = {}
    /\ tasks = {}
    /\ dirs = <<>>
    /\ dirlog = <<>>
    /\ failures = {}
    /\ faults = 0
    /\ WalkIdle
    /\ pending = None
    /\ taskinfo = [t \in TaskIds |-> NoTask]
    /\ ioUnfinished = 1
    /\ copyPc = "get"
    /\ length \in 0..MaxLength
    /\ \E a, m \in 1..MaxMtime :
          stats = [st_size |-> length, st_atime |-> a, st_mtime |-> m]
    /\ src = "unopened"
    /\ dst = "unopened"
    /\ blobs = <<>>
    /\ reader = "idle"
    /\ writer = "idle"
    /\ offset = 0
    /\ blob = None
    /\ written = <<>>
    /\ times = NoStats

outerVars == <<fsVars, pc, run, planVars, todo, tasks, dirs, dirlog, walkVars,
               pending, taskinfo>>

\* open_file, l.416-420, mode 'rb': the handle, or None when open raised
OpenRead(ok) ==
    /\ copyPc = "get"
    /\ src = "unopened"
    /\ src' = IF ok THEN "open" ELSE "none"
    /\ UNCHANGED <<outerVars, thread_manager, io_queue, ioUnfinished, faultVars,
                   copyPc, stats, length, dst, blobs, reader, writer, offset, blob,
                   written, times>>

\* open_file, l.416-420, mode 'wb': a successful open creates or empties the file
OpenWrite(ok) ==
    /\ copyPc = "get"
    /\ dst = "unopened"
    /\ dst' = IF ok THEN "open" ELSE "none"
    /\ times' = IF ok THEN NowTimes ELSE times
    /\ UNCHANGED <<outerVars, thread_manager, io_queue, ioUnfinished, faultVars,
                   copyPc, stats, length, src, blobs, reader, writer, offset, blob,
                   written>>

\* copy, l.333-344: both gets, then read and write are started if both opened
CopyGet ==
    /\ copyPc = "get"
    /\ src # "unopened"
    /\ dst # "unopened"
    /\ IF src = "open" /\ dst = "open"
       THEN /\ reader' = "read"
            /\ writer' = "get"
            /\ copyPc' = "join"
       ELSE /\ copyPc' = "cleanup"
            /\ UNCHANGED <<reader, writer>>
    /\ UNCHANGED <<outerVars, thread_manager, io_queue, ioUnfinished, faultVars,
                   stats, length, src, dst, blobs, offset, blob, written, times>>

\* read, l.369-371: blob = src.read(size); the empty blob ends the loop, an
\* IOError too
ReadChunk(fail) ==
    /\ reader = "read"
    /\ Inject(fail)
    /\ Fault(fail, fail, "read", <<offset>>)
    /\ IF fail \/ offset = length
       THEN /\ reader' = "close"
            /\ UNCHANGED offset
       ELSE /\ reader' = "put"
            /\ offset' = offset + 1
    /\ UNCHANGED <<outerVars, thread_manager, io_queue, ioUnfinished, copyPc,
                   stats, length, src, dst, blobs, writer, blob, written, times>>

\* read, l.372: blobs.put(blob), which waits while the channel is full
ReadPut ==
    /\ reader = "put"
    /\ Len(blobs) < BlobsDepth
    /\ blobs' = Append(blobs, Chunk(offset))
    /\ reader' = "read"
    /\ UNCHANGED <<outerVars, thread_manager, io_queue, ioUnfinished, faultVars,
                   copyPc, stats, length, src, dst, writer, offset, blob, written,
                   times>>

\* read, l.375-376: finally: src.close()
ReadClose ==
    /\ reader = "close"
    /\ src' = Close(src)
    /\ reader' = "eos"
    /\ UNCHANGED <<outerVars, thread_manager, io_queue, ioUnfinished, faultVars,
                   copyPc, stats, length, dst, blobs, writer, offset, blob, written,
                   times>>

\* read, l.378: blobs.put(None)
ReadEos ==
    /\ reader = "eos"
    /\ Len(blobs) < BlobsDepth
    /\ blobs' = Append(blobs, None)
    /\ reader' = "done"
    /\ UNCHANGED <<outerVars, thread_manager, io_queue, ioUnfinished, faultVars,
                   copyPc, stats, length, src, dst, writer, offset, blob, written,
                   times>>

\* a writer on a channel that hands out its newest item first
WriteGet_Newest ==
    /\ writer = "get"
    /\ blobs # <<>>
    /\ blob' = blobs[Len(blobs)]
    /\ blobs' = SubSeq(blobs, 1, Len(blobs) - 1)
    /\ writer' = IF blobs[Len(blobs)] = None THEN "close" ELSE "write"
    /\ UNCHANGED <<outerVars, thread_manager, io_queue, ioUnfinished, faultVars,
                   copyPc, stats, length, src, dst, reader, offset, written, times>>

\* write, l.384-386: blob = blobs.get(), which waits while the channel is
\* empty; None ends the loop
WriteGet ==
    /\ writer = "get"
    /\ blobs # <<>>
    /\ blob' = Head(blobs)
    /\ blobs' = Tail(blobs)
    /\ writer' = IF Head(blobs) = None THEN "close" ELSE "write"
    /\ UNCHANGED <<outerVars, thread_manager, io_queue, ioUnfinished, faultVars,
                   copyPc, stats, length, src, dst, reader, offset, written, times>>

\* a writer that stops at its first error and leaves the channel as it is
WriteChunk_NoDrain(fail) ==
    /\ writer = "write"
    /\ Inject(fail)
    /\ Fault(fail, fail, "write", <<Len(written)>>)
    /\ IF fail
       THEN /\ writer' = "close"
            /\ UNCHANGED written
       ELSE /\ writer' = "get"
            /\ written' = Append(written, blob)
    /\ UNCHANGED <<outerVars, thread_manager, io_queue, ioUnfinished, copyPc,
                   stats, length, src, dst, blobs, reader, offset, blob, times>>

\* write, l.387-390: dst.write(blob); blobs.task_done(); an IOError is logged
WriteChunk(fail) ==
    /\ writer = "write"
    /\ Inject(fail)
    /\ Fault(fail, fail, "write", <<Len(written)>>)
    /\ IF fail
       THEN /\ writer' = "drain"
            /\ UNCHANGED written
       ELSE /\ writer' = "get"
            /\ written' = Append(written, blob)
    /\ UNCHANGED <<outerVars, thread_manager, io_queue, ioUnfinished, copyPc,
                   stats, length, src, dst, blobs, reader, offset, blob, times>>

\* write, l.395-398: after an error the channel is emptied up to None
WriteDrain ==
    /\ writer = "drain"
    /\ blobs # <<>>
    /\ blob' = Head(blobs)
    /\ blobs' = Tail(blobs)
    /\ writer' = IF Head(blobs) = None THEN "close" ELSE "drain"
    /\ UNCHANGED <<outerVars, thread_manager, io_queue, ioUnfinished, faultVars,
                   copyPc, stats, length, src, dst, reader, offset, written, times>>

\* write, l.399-400: finally: dst.close()
WriteClose ==
    /\ writer = "close"
    /\ dst' = Close(dst)
    /\ writer' = "done"
    /\ UNCHANGED <<outerVars, thread_manager, io_queue, ioUnfinished, faultVars,
                   copyPc, stats, length, src, blobs, reader, offset, blob, written,
                   times>>

\* copy, l.346-347: read_thread.join(); write_thread.join()
CopyJoinThreads ==
    /\ copyPc = "join"
    /\ reader = "done"
    /\ writer = "done"
    /\ copyPc' = "close"
    /\ UNCHANGED <<outerVars, thread_manager, io_queue, ioUnfinished, faultVars,
                   stats, length, src, dst, blobs, reader, writer, offset, blob,
                   written, times>>

\* copy, l.349-350: src.close(); dst.close()
CopyClose ==
    /\ copyPc = "close"
    /\ src' = Close(src)
    /\ dst' = Close(dst)
    /\ copyPc' = "utime"
    /\ UNCHANGED <<outerVars, thread_manager, io_queue, ioUnfinished, faultVars,
                   stats, length, blobs, reader, writer, offset, blob, written,
                   times>>

\* copy, l.353: os.utime(right/path, (stats[atime], stats[mtime])); an OSError
\* ends the copy thread
CopyUtime(fail) ==
    /\ copyPc = "utime"
    /\ Inject(fail)
    /\ Fault(fail, fail, "utime", <<>>)
    /\ IF fail
       THEN /\ copyPc' = "raised"
            /\ UNCHANGED times
       ELSE /\ copyPc' = "cleanup"
            /\ times' = StatTimes(stats)
    /\ UNCHANGED <<outerVars, thread_manager, io_queue, ioUnfinished, stats,
                   length, src, dst, blobs, reader, writer, offset, blob, written>>

\* a copy that leaves a handle open when the other side did not open
CopyCleanup_Leak ==
    /\ copyPc = "cleanup"
    /\ copyPc' = "release"
    /\ UNCHANGED <<outerVars, thread_manager, io_queue, ioUnfinished, faultVars,
                   stats, length, src, dst, blobs, reader, writer, offset, blob,
                   written, times>>

\* copy, l.356-359: if src: src.close(); if dst: dst.close()
CopyCleanup ==
    /\ copyPc = "cleanup"
    /\ src' = Close(src)
    /\ dst' = Close(dst)
    /\ copyPc' = "release"
    /\ UNCHANGED <<outerVars, thread_manager, io_queue, ioUnfinished, faultVars,
                   stats, length, blobs, reader, writer, offset, blob, written,
                   times>>

\* copy, l.361-363: thread_manager.release(); io_queue.get(); io_queue.task_done()
CopyRelease ==
    /\ copyPc = "release"
    /\ thread_manager' = thread_manager + 1
    /\ io_queue' = io_queue - 1
    /\ ioUnfinished' = ioUnfinished - 1
    /\ copyPc' = "returned"
    /\ UNCHANGED <<outerVars, faultVars, stats, length, src, dst, blobs, reader,
                   writer, offset, blob, written, times>>

CopyNext ==
    \/ \E ok \in BOOLEAN : OpenRead(ok)
    \/ \E ok \in BOOLEAN : OpenWrite(ok)
    \/ CopyGet
    \/ \E fail \in BOOLEAN : ReadChunk(fail)
    \/ ReadPut
    \/ ReadClose
    \/ ReadEos
    \/ WriteGet
    \/ \E fail \in BOOLEAN : WriteChunk(fail)
    \/ WriteDrain
    \/ WriteClose
    \/ CopyJoinThreads
    \/ CopyClose
    \/ \E fail \in BOOLEAN : CopyUtime(fail)
    \/ CopyCleanup
    \/ CopyRelease

CopySpec == CopyInit /\ [][CopyNext]_vars

\* the scheduler runs some thread that can run
FairCopySpec == CopySpec /\ WF_vars(CopyNext)

\* ---- vocabulary of the copy ---------------------------------------------------
Failed(call) == \E f \in failures : f[1] = call
BothOpened == src \in {"open", "closed"} /\ dst \in {"open", "closed"}

\* C16: under fair scheduling, whatever the length of the file and wherever a
\* read or a write fails, the read thread and the write thread both end, the
\* channel is left empty, and copy returns (unless os.utime raised in it).
C16_Shutdown ==
    <>[](/\ reader \in {"idle", "done"}
         /\ writer \in {"idle", "done"}
         /\ blobs = <<>>
         /\ copyPc = "returned" \/ (copyPc = "raised" /\ Failed("utime")))

\* after a write error the reader waits on a full channel, which the writer
\* is emptying
C16_Witness ==
    /\ Failed("write")
    /\ writer = "drain"
    /\ reader = "put"
    /\ Len(blobs) = BlobsDepth
    /\ length > BlobsDepth

\* the chunks read so far, from the destination file back to the reader's hand
IsChunk(b) == b # None
InFlight ==
    written
    \o (IF writer = "write" THEN <<blob>> ELSE <<>>)
    \o SelectSeq(blobs, IsChunk)
    \o (IF reader = "put" THEN <<Chunk(offset)>> ELSE <<>>)
NoTransferError == ~Failed("read") /\ ~Failed("write")

\* C17: the channel never holds more than BlobsDepth items, read cannot put
\* while it is full and write cannot get while it is empty; the end marker is
\* never written; as long as no read or write failed the chunks written, then
\* those in the writer's hand, in the channel and in the reader's hand are the
\* chunks read so far in order, each once; when the writer is over the file
\* written is the source, chunk by chunk.
C17_Streaming ==
    /\ Len(blobs) <= BlobsDepth
    /\ Len(blobs) = BlobsDepth => ~ENABLED ReadPut /\ ~ENABLED ReadEos
    /\ blobs = <<>> => ~ENABLED WriteGet /\ ~ENABLED WriteDrain
    /\ \A i \in DOMAIN written : written[i] # None
    /\ NoTransferError => InFlight = [i \in 1..offset |-> Chunk(i)]
    /\ (NoTransferError /\ writer = "done") =>
          written = [i \in 1..length |-> Chunk(i)]

\* a file longer than the channel is deep went through, chunk by chunk
C17_Witness ==
    /\ copyPc = "returned"
    /\ failures = {}
    /\ length > BlobsDepth
    /\ Len(written) = length

\* C18: once the transfer is over without a read or write error the times of
\* the destination file are those of the stat record of the plan; after a read
\* or write error they are not.
C18_StampOnSuccess ==
    /\ (copyPc \in {"cleanup", "release", "returned"} /\ BothOpened /\ NoTransferError)
          => times = StatTimes(stats)
    /\ ~NoTransferError => times # StatTimes(stats)

Launched == reader # "idle" \/ writer # "idle"
OpenFailed == src = "none" \/ dst = "none"

\* C19: read and write are started exactly when both handles opened; when an
\* open failed copy does not raise, nothing is read or written, the times of
\* the destination are not set from the stat record, and once copy is past
\* its last close no handle is open, whatever happened.
C19_OpenFailure ==
    /\ copyPc = "get" => ~Launched
    /\ copyPc # "get" => (Launched <=> ~OpenFailed)
    /\ Launched => reader # "idle" /\ writer # "idle"
    /\ OpenFailed =>
          /\ copyPc # "raised"
          /\ offset = 0
          /\ written = <<>>
          /\ blobs = <<>>
          /\ times # StatTimes(stats)
    /\ copyPc \in {"utime", "raised", "release", "returned"} =>
          /\ src \in {"closed", "none"}
          /\ dst \in {"closed", "none"}

\* copy returned after the source failed to open: the destination handle is closed
C19_Witness ==
    /\ copyPc = "returned"
    /\ src = "none"
    /\ dst = "closed"


\* ---- the sets of a plan ---------------------------------------------------------
\* the paths an action set of the consolidated plan names
PathsOf(k) == IF k = "copy" THEN {c[1] : c \in plans.copy} ELSE plans[k]
Actions == DOMAIN EmptyPlans

\* C20: in every state of the consolidated plan, the returned one included, no
\* path is in two action sets, except in rmdir and copy together, and then the
\* path is a file on the source and was a directory on the destination; rmlink
\* is empty; within one plan() every set only grows.
C20_Disjoint ==
    /\ [](/\ \A j, k \in Actions :
                (j # k /\ {j, k} # {"rmdir", "copy"}) => PathsOf(j) \cap PathsOf(k) = {}
          /\ plans.rmlink = {}
          /\ run = 1 => \A p \in PathsOf("rmdir") \cap PathsOf("copy") :
                           A[p].kind = "file" /\ B0[p].kind = "dir")
    /\ [][run' = run => \A k \in Actions : plans[k] \subseteq plans'[k]]_vars

\* a consolidated plan with a path in rmdir and in copy, and a file to remove
C20_Witness ==
    /\ PathsOf("rmdir") \cap PathsOf("copy") # {}
    /\ plans.rmfile # {}
    /\ pc \in {"directories_join", "compare_join", "results_join", "plan_join"}
====
